---- MODULE Spec2Model ----
(***************************************************************************)
(* A model of composer's sampling-window profiler                          *)
(* (composer/profiler/profiler.py): the Profiler's cyclic sampling state   *)
(* machine (get_action), its marker registry (Profiler.marker and          *)
(* Marker.__init__), the Marker lifecycle (start, finish, instant,         *)
(* counter) and the fan-out of recorded events to the event handlers.      *)
(***************************************************************************)
EXTENDS Integers, Sequences, FiniteSets, TLC

(***************************************************************************)
(* Bounds of the model.                                                    *)
(***************************************************************************)
\* largest wait / warmup / active explored for the pure sampling function
MaxPhase == 4
\* largest repeat explored for the pure sampling function
MaxRepeat == 2
\* largest skip_first explored for the pure sampling function
MaxSkipFirst == 1
\* largest batch index handed to get_action by a direct caller
MaxBatchIdx == 10
\* largest batch_in_epoch the host loop reaches within an epoch
MaxBatch == 3
\* largest number of Marker objects alive at once
MaxMarkers == 2
\* largest number of calls of a decorated function in a run
MaxCalls == 3
\* number of nodes of the distributed run, and of ranks on each node
NumNodes == 2
RanksPerNode == 2
\* the wall clock runs from 0 to MaxTime
MaxTime == 1

(***************************************************************************)
(* ProfilerAction (composer.profiler.profiler_action) and the exceptions   *)
(* the code can raise.                                                     *)
(***************************************************************************)
SKIP == "SKIP"
WARMUP == "WARMUP"
ACTIVE == "ACTIVE"
ProfilerAction == {SKIP, WARMUP, ACTIVE}
ZeroDivisionError == "ZeroDivisionError"
RuntimeError == "RuntimeError"
HandlerError == "HandlerError"
None == "None"
\* the batch index recorded while get_action has not been called directly
NoCall == 0 - 1

VARIABLES
    skip_first,         \* Profiler.skip_first
    wait,               \* Profiler.wait
    warmup,             \* Profiler.warmup
    active,             \* Profiler.active
    repeat,             \* Profiler.repeat
    _action,            \* Profiler._action
    _names_to_markers,  \* Profiler._names_to_markers: name -> Marker object id
    _event_handlers,    \* Profiler._event_handlers: the handlers, in registration order
    markers,            \* the Marker objects constructed so far, by object id
    batch_in_epoch,     \* state.timer.batch_in_epoch.value
    time_ns,            \* the wall clock read by time.time_ns()
    delivered,          \* what the handlers were handed by the last operation, in order
    ret,                \* what the last operation returned or raised
    requested,          \* history: the names asked of Profiler.marker
    first_seen,         \* history: the first direct get_action call, its result, and
                        \* whether the latest direct call asked for the same batch again
    scope,              \* the caller's place in a `with marker:` region or in a call
                        \* of a function decorated with a marker, and how it was left
    durations,          \* history: per handler, is_start of the duration events received
    rank_pc,            \* each rank's place in Profiler.merge_traces
    merged,             \* history: the ranks that wrote a merged trace file
    callbacks,          \* state.callbacks: the host's callbacks, in order
    fs,                 \* the file system: the trace directories that exist
    trace_files,        \* the files handed to the merger by the last merge, per folder
    merged_output       \* the fragments the merger put into the merged trace file

cycleVars == <<skip_first, wait, warmup, active, repeat>>
profilerVars == <<cycleVars, _action, _names_to_markers, _event_handlers>>
callerVars == <<scope, durations>>
scanVars == <<callbacks, fs, trace_files, merged_output>>
mergeVars == <<rank_pc, merged, scanVars>>
vars == <<profilerVars, markers, batch_in_epoch, time_ns, delivered, ret, requested,
          first_seen, callerVars, mergeVars>>

(***************************************************************************)
(* Profiler.get_action.  A modulo by a zero cycle length raises            *)
(* ZeroDivisionError, which is returned here as the outcome of the call.   *)
(***************************************************************************)
get_action_off_by_one(batch_idx) ==
    LET cycle_len == wait + warmup + active
    IN  IF repeat # 0 /\ batch_idx > cycle_len * repeat
        THEN SKIP
        ELSE IF cycle_len = 0
        THEN ZeroDivisionError
        ELSE LET position_in_cycle == batch_idx % cycle_len
             IN  IF position_in_cycle < wait
                 THEN SKIP
                 ELSE IF position_in_cycle < wait + warmup
                 THEN WARMUP
                 ELSE ACTIVE

get_action_active_forever(batch_idx) ==
    LET cycle_len == wait + warmup + active
    IN  IF repeat # 0 /\ batch_idx >= cycle_len * repeat
        THEN SKIP
        ELSE IF cycle_len = 0
        THEN ZeroDivisionError
        ELSE LET position_in_cycle ==
                     IF repeat = 0 /\ batch_idx >= cycle_len
                     THEN cycle_len - 1
                     ELSE batch_idx % cycle_len
             IN  IF position_in_cycle < wait
                 THEN SKIP
                 ELSE IF position_in_cycle < wait + warmup
                 THEN WARMUP
                 ELSE ACTIVE

get_action_single_cycle(batch_idx) ==
    LET cycle_len == wait + warmup + active
    IN  IF batch_idx >= cycle_len * (IF repeat = 0 THEN 1 ELSE repeat)
        THEN SKIP
        ELSE IF cycle_len = 0
        THEN ZeroDivisionError
        ELSE LET position_in_cycle == batch_idx % cycle_len
             IN  IF position_in_cycle < wait
                 THEN SKIP
                 ELSE IF position_in_cycle < wait + warmup
                 THEN WARMUP
                 ELSE ACTIVE

get_action(batch_idx) ==
    LET cycle_len == wait + warmup + active
    IN  IF repeat # 0 /\ batch_idx >= cycle_len * repeat
        THEN SKIP
        ELSE IF cycle_len = 0
        THEN ZeroDivisionError
        ELSE LET position_in_cycle == batch_idx % cycle_len
             IN  IF position_in_cycle < wait
                 THEN SKIP
                 ELSE IF position_in_cycle < wait + warmup
                 THEN WARMUP
                 ELSE ACTIVE

(***************************************************************************)
(* What an operation hands back: its name, its argument, the value         *)
(* returned and the exception raised (None when it returns).               *)
(***************************************************************************)
Returned(op, arg, value) ==
    [op |-> op, arg |-> arg, value |-> value, error |-> None]

Raised(op, arg, error) ==
    [op |-> op, arg |-> arg, value |-> None, error |-> error]

(***************************************************************************)
(* A direct call of Profiler.get_action(batch_idx).  It reads the cycle    *)
(* parameters and assigns nothing.                                         *)
(***************************************************************************)
GetActionCallCaching(batch_idx) ==
    LET a == get_action(batch_idx)
    IN  /\ ret' = IF a = ZeroDivisionError
                  THEN Raised("get_action", batch_idx, ZeroDivisionError)
                  ELSE Returned("get_action", batch_idx, a)
        /\ first_seen' = IF first_seen.arg = NoCall
                         THEN [arg |-> batch_idx, value |-> a, again |-> FALSE]
                         ELSE [first_seen EXCEPT !.again = (first_seen.arg = batch_idx)]
        /\ _action' = IF a \in ProfilerAction THEN a ELSE _action
        /\ delivered' = << >>
        /\ UNCHANGED <<cycleVars, _names_to_markers, _event_handlers, markers,
                       batch_in_epoch, time_ns, requested>>

GetActionCall(batch_idx) ==
    LET a == get_action(batch_idx)
    IN  /\ ret' = IF a = ZeroDivisionError
                  THEN Raised("get_action", batch_idx, ZeroDivisionError)
                  ELSE Returned("get_action", batch_idx, a)
        /\ first_seen' = IF first_seen.arg = NoCall
                         THEN [arg |-> batch_idx, value |-> a, again |-> FALSE]
                         ELSE [first_seen EXCEPT !.again = (first_seen.arg = batch_idx)]
        /\ delivered' = << >>
        /\ UNCHANGED <<profilerVars, markers, batch_in_epoch, time_ns, requested>>

(***************************************************************************)
(* The caller is in no `with marker:` region and in no decorated call.     *)
(* Of the last region, raised tells whether its body raised, result is     *)
(* what the body returned, value what the caller received and error what   *)
(* propagated to the caller.  calls counts the decorated calls made so     *)
(* far, unmatched tells whether one of them started under an action the    *)
(* marker does not record, failed whether a handler failed during one.     *)
(***************************************************************************)
NoScope ==
    [pc |-> "none", kind |-> None, id |-> 0, raised |-> FALSE, result |-> None,
     value |-> None, error |-> None, calls |-> 0, unmatched |-> FALSE,
     failed |-> FALSE]

(***************************************************************************)
(* The ranks of the distributed run (composer.utils.dist): global ranks    *)
(* are numbered node by node, the local rank is the rank within its node.  *)
(***************************************************************************)
Ranks == 0..(NumNodes * RanksPerNode - 1)

get_local_rank(r) == r % RanksPerNode

NodeOf(r) == r \div RanksPerNode

(***************************************************************************)
(* Profiler.__init__, apart from the cycle parameters.                     *)
(***************************************************************************)
NumHandlers == 2

(***************************************************************************)
(* The handlers given to the constructor are numbered 1..NumHandlers; the  *)
(* JSONTraceHandler the constructor installs when it is given none is      *)
(* handler 0.  Each handler writes its fragments into a directory of its   *)
(* own, named after it; the TorchProfiler callback has one more.           *)
(***************************************************************************)
JSONTraceHandler == 0

output_directory(handler) == handler

tensorboard_trace_handler_dir == NumHandlers + 1

ProfilerInit ==
    /\ _names_to_markers = << >>
    /\ _event_handlers = [i \in 1..NumHandlers |-> i]
    /\ _action = SKIP
    /\ markers = << >>
    /\ batch_in_epoch = 0
    /\ time_ns = 0
    /\ delivered = << >>
    /\ ret = Returned("__init__", None, None)
    /\ requested = {}
    /\ first_seen = [arg |-> NoCall, value |-> None, again |-> FALSE]
    /\ scope = NoScope
    /\ durations = [h \in 1..NumHandlers |-> << >>]
    /\ rank_pc = [r \in Ranks |-> "running"]
    /\ merged = {}
    /\ callbacks = << >>
    /\ fs = << >>
    /\ trace_files = << >>
    /\ merged_output = {}

(***************************************************************************)
(* The sampling function on its own: every cycle configuration within the  *)
(* bounds, and direct calls of get_action.                                 *)
(***************************************************************************)
InitAction ==
    /\ skip_first \in 0..MaxSkipFirst
    /\ wait \in 0..MaxPhase
    /\ warmup \in 0..MaxPhase
    /\ active \in 0..MaxPhase
    /\ repeat \in 0..MaxRepeat
    /\ ProfilerInit

\* the operations of the Profiler and of a Marker leave the caller's place
\* and the ranks' places where they are
NoCallerStep == UNCHANGED <<callerVars, mergeVars>>

NextAction ==
    \E b \in 0..MaxBatchIdx : GetActionCall(b) /\ NoCallerStep

SpecAction == InitAction /\ [][NextAction]_vars

(***************************************************************************)
(* The inputs of the marker operations.                                    *)
(***************************************************************************)
Names == {"x", "y"}

DefaultArgs ==
    [actions |-> {WARMUP, ACTIVE}, record_instant_on_start |-> FALSE,
     record_instant_on_finish |-> FALSE, categories |-> << >>]

MarkerArgs ==
    {DefaultArgs,
     [actions |-> {ACTIVE}, record_instant_on_start |-> TRUE,
      record_instant_on_finish |-> TRUE, categories |-> <<"c">>]}

CounterValues == {[loss |-> 1]}

(***************************************************************************)
(* Marker.__init__: the fields of a constructed Marker, and the case in    *)
(* which the constructor raises.  The object under construction is new, so *)
(* a registry entry for its name is never the object itself.               *)
(***************************************************************************)
NewMarker(name, args) ==
    [name |-> name,
     actions |-> args.actions,
     categories |-> args.categories,
     record_instant_on_start |-> args.record_instant_on_start,
     record_instant_on_finish |-> args.record_instant_on_finish,
     started |-> FALSE,
     action_at_start |-> None]

MarkerInitNeverRaises(name) ==
    FALSE

MarkerInitRaises(name) ==
    name \in DOMAIN _names_to_markers

(***************************************************************************)
(* The events a Marker records, as the Profiler's record operations pass   *)
(* them to a handler.                                                      *)
(***************************************************************************)
\* dist.get_global_rank() and os.getpid() of the process that owns the Profiler
get_global_rank == 0

getpid == 1

DurationEvent(m, is_start) ==
    [kind |-> "duration", name |-> m.name, categories |-> m.categories,
     timestamp |-> batch_in_epoch, is_start |-> is_start,
     wall_clock_time_ns |-> time_ns, global_rank |-> get_global_rank, pid |-> getpid]

InstantEvent(m) ==
    [kind |-> "instant", name |-> m.name, categories |-> m.categories,
     timestamp |-> batch_in_epoch,
     wall_clock_time_ns |-> time_ns, global_rank |-> get_global_rank, pid |-> getpid]

CounterEvent(m, values) ==
    [kind |-> "counter", name |-> m.name, categories |-> m.categories,
     wall_clock_time_ns |-> time_ns, global_rank |-> get_global_rank, pid |-> getpid,
     values |-> values]

(***************************************************************************)
(* Profiler.record_*_event: the event goes to every handler in             *)
(* registration order.                                                     *)
(***************************************************************************)
FanOutReversed(event) ==
    [i \in 1..Len(_event_handlers) |->
        [handler |-> _event_handlers[Len(_event_handlers) + 1 - i], event |-> event]]

FanOut(event) ==
    [i \in 1..Len(_event_handlers) |->
        [handler |-> _event_handlers[i], event |-> event]]

(***************************************************************************)
(* An operation makes its handler calls in order; a handler that raises    *)
(* ends the operation there.  fail is the position of the call that raises *)
(* (0: none does), so the calls before it are the ones delivered.          *)
(***************************************************************************)
DeliveredBeforeSuppressing(calls, fail) ==
    IF fail = 0
    THEN calls
    ELSE SubSeq(calls, 1, fail - 1) \o SubSeq(calls, fail + 1, Len(calls))

DeliveredBefore(calls, fail) ==
    IF fail = 0 THEN calls ELSE SubSeq(calls, 1, fail - 1)

(***************************************************************************)
(* The host loop: the batch index advances within an epoch and restarts at *)
(* 0 with every new epoch.                                                 *)
(***************************************************************************)
NextBatch ==
    /\ batch_in_epoch < MaxBatch
    /\ batch_in_epoch' = batch_in_epoch + 1
    /\ ret' = Returned("next_batch", None, None)
    /\ delivered' = << >>
    /\ UNCHANGED <<profilerVars, markers, time_ns, requested, first_seen>>

\* time passes between the operations
Tick ==
    /\ time_ns < MaxTime
    /\ time_ns' = time_ns + 1
    /\ ret' = Returned("tick", None, None)
    /\ delivered' = << >>
    /\ UNCHANGED <<profilerVars, markers, batch_in_epoch, requested, first_seen>>

NextEpoch ==
    /\ batch_in_epoch > 0
    /\ batch_in_epoch' = 0
    /\ ret' = Returned("next_epoch", None, None)
    /\ delivered' = << >>
    /\ UNCHANGED <<profilerVars, markers, time_ns, requested, first_seen>>

(***************************************************************************)
(* Profiler.marker(name, ...).                                             *)
(***************************************************************************)
ProfilerMarkerAlwaysNew(name, args) ==
    LET id == Len(markers) + 1
    IN  /\ Len(markers) < MaxMarkers
        /\ markers' = Append(markers, NewMarker(name, args))
        /\ _names_to_markers' =
               [n \in DOMAIN _names_to_markers \cup {name} |->
                   IF n = name THEN id ELSE _names_to_markers[n]]
        /\ ret' = Returned("marker", [name |-> name, args |-> args], id)
        /\ requested' = requested \cup {name}
        /\ delivered' = << >>
        /\ UNCHANGED <<cycleVars, _action, _event_handlers, batch_in_epoch, time_ns, first_seen>>

ProfilerMarkerUpdatesAll(name, args) ==
    LET isNew == name \notin DOMAIN _names_to_markers
        id == IF isNew THEN Len(markers) + 1 ELSE _names_to_markers[name]
    IN  /\ isNew => Len(markers) < MaxMarkers
        /\ markers' =
               IF isNew
               THEN Append(markers, NewMarker(name, args))
               ELSE [markers EXCEPT
                        ![id].categories = args.categories,
                        ![id].actions = args.actions,
                        ![id].record_instant_on_start = args.record_instant_on_start,
                        ![id].record_instant_on_finish = args.record_instant_on_finish]
        /\ _names_to_markers' =
               IF isNew
               THEN [n \in DOMAIN _names_to_markers \cup {name} |->
                        IF n = name THEN id ELSE _names_to_markers[n]]
               ELSE _names_to_markers
        /\ ret' = Returned("marker", [name |-> name, args |-> args], id)
        /\ requested' = requested \cup {name}
        /\ delivered' = << >>
        /\ UNCHANGED <<cycleVars, _action, _event_handlers, batch_in_epoch, time_ns, first_seen>>

ProfilerMarker(name, args) ==
    LET isNew == name \notin DOMAIN _names_to_markers
        id == IF isNew THEN Len(markers) + 1 ELSE _names_to_markers[name]
    IN  /\ isNew => Len(markers) < MaxMarkers
        /\ markers' =
               IF isNew
               THEN Append(markers, NewMarker(name, args))
               ELSE [markers EXCEPT ![id].categories = args.categories]
        /\ _names_to_markers' =
               IF isNew
               THEN [n \in DOMAIN _names_to_markers \cup {name} |->
                        IF n = name THEN id ELSE _names_to_markers[n]]
               ELSE _names_to_markers
        /\ ret' = Returned("marker", [name |-> name, args |-> args], id)
        /\ requested' = requested \cup {name}
        /\ delivered' = << >>
        /\ UNCHANGED <<cycleVars, _action, _event_handlers, batch_in_epoch, time_ns, first_seen>>

(***************************************************************************)
(* Marker(profiler, name, ...) constructed directly by a caller.  The      *)
(* constructor registers nothing.                                          *)
(***************************************************************************)
DirectMarker(name, args) ==
    /\ IF MarkerInitRaises(name)
       THEN /\ ret' = Raised("Marker", [name |-> name, args |-> args], RuntimeError)
            /\ UNCHANGED markers
       ELSE /\ Len(markers) < MaxMarkers
            /\ markers' = Append(markers, NewMarker(name, args))
            /\ ret' = Returned("Marker", [name |-> name, args |-> args], Len(markers) + 1)
    /\ delivered' = << >>
    /\ UNCHANGED <<profilerVars, batch_in_epoch, time_ns, requested, first_seen>>

(***************************************************************************)
(* Marker.start, Marker.finish, Marker.instant and Marker.counter on the   *)
(* Marker object id.                                                       *)
(***************************************************************************)
StartCallsAlways(m, a) ==
    FanOut(DurationEvent(m, TRUE))
    \o (IF m.record_instant_on_start THEN FanOut(InstantEvent(m)) ELSE << >>)

StartCallsInstantFirst(m, a) ==
    IF a \in m.actions
    THEN (IF m.record_instant_on_start THEN FanOut(InstantEvent(m)) ELSE << >>)
         \o FanOut(DurationEvent(m, TRUE))
    ELSE << >>

StartCalls(m, a) ==
    IF a \in m.actions
    THEN FanOut(DurationEvent(m, TRUE))
         \o (IF m.record_instant_on_start THEN FanOut(InstantEvent(m)) ELSE << >>)
    ELSE << >>

StartMarksOnlyWhenRecording(id, fail) ==
    LET m == markers[id]
        a == get_action(batch_in_epoch)
    IN  /\ IF m.started
           THEN /\ fail = 0
                /\ ret' = Raised("start", id, RuntimeError)
                /\ delivered' = << >>
                /\ UNCHANGED markers
           ELSE IF a = ZeroDivisionError
           THEN /\ fail = 0
                /\ ret' = Raised("start", id, ZeroDivisionError)
                /\ delivered' = << >>
                /\ UNCHANGED markers
           ELSE /\ fail \in 0..Len(StartCalls(m, a))
                /\ delivered' = DeliveredBefore(StartCalls(m, a), fail)
                /\ markers' = [markers EXCEPT
                                  ![id].action_at_start = a,
                                  ![id].started = (fail = 0 /\ a \in m.actions)]
                /\ ret' = IF fail = 0
                          THEN Returned("start", id, None)
                          ELSE Raised("start", id, HandlerError)
        /\ UNCHANGED <<profilerVars, batch_in_epoch, time_ns, requested, first_seen>>

StartReevaluates(id, fail) ==
    LET m == markers[id]
        a == get_action(batch_in_epoch)
    IN  /\ IF a = ZeroDivisionError
           THEN /\ fail = 0
                /\ ret' = Raised("start", id, ZeroDivisionError)
                /\ delivered' = << >>
                /\ UNCHANGED markers
           ELSE IF m.started
           THEN /\ fail = 0
                /\ ret' = Raised("start", id, RuntimeError)
                /\ delivered' = << >>
                /\ markers' = [markers EXCEPT ![id].action_at_start = a]
           ELSE /\ fail \in 0..Len(StartCalls(m, a))
                /\ delivered' = DeliveredBefore(StartCalls(m, a), fail)
                /\ markers' = [markers EXCEPT
                                  ![id].action_at_start = a,
                                  ![id].started = (fail = 0)]
                /\ ret' = IF fail = 0
                          THEN Returned("start", id, None)
                          ELSE Raised("start", id, HandlerError)
        /\ UNCHANGED <<profilerVars, batch_in_epoch, time_ns, requested, first_seen>>

Start(id, fail) ==
    LET m == markers[id]
        a == get_action(batch_in_epoch)
    IN  /\ IF m.started
           THEN /\ fail = 0
                /\ ret' = Raised("start", id, RuntimeError)
                /\ delivered' = << >>
                /\ UNCHANGED markers
           ELSE IF a = ZeroDivisionError
           THEN /\ fail = 0
                /\ ret' = Raised("start", id, ZeroDivisionError)
                /\ delivered' = << >>
                /\ UNCHANGED markers
           ELSE /\ fail \in 0..Len(StartCalls(m, a))
                /\ delivered' = DeliveredBefore(StartCalls(m, a), fail)
                /\ markers' = [markers EXCEPT
                                  ![id].action_at_start = a,
                                  ![id].started = (fail = 0)]
                /\ ret' = IF fail = 0
                          THEN Returned("start", id, None)
                          ELSE Raised("start", id, HandlerError)
        /\ UNCHANGED <<profilerVars, batch_in_epoch, time_ns, requested, first_seen>>

FinishCallsReevaluates(m) ==
    IF get_action(batch_in_epoch) \in m.actions
    THEN FanOut(DurationEvent(m, FALSE))
         \o (IF m.record_instant_on_finish THEN FanOut(InstantEvent(m)) ELSE << >>)
    ELSE << >>

FinishCalls(m) ==
    IF m.action_at_start \in m.actions
    THEN FanOut(DurationEvent(m, FALSE))
         \o (IF m.record_instant_on_finish THEN FanOut(InstantEvent(m)) ELSE << >>)
    ELSE << >>

FinishClearsFirst(id, fail) ==
    LET m == markers[id]
    IN  /\ IF ~m.started
           THEN /\ fail = 0
                /\ ret' = Raised("finish", id, RuntimeError)
                /\ delivered' = << >>
                /\ UNCHANGED markers
           ELSE /\ fail \in 0..Len(FinishCalls(m))
                /\ delivered' = DeliveredBefore(FinishCalls(m), fail)
                /\ markers' = [markers EXCEPT ![id].started = FALSE]
                /\ ret' = IF fail = 0
                          THEN Returned("finish", id, None)
                          ELSE Raised("finish", id, HandlerError)
        /\ UNCHANGED <<profilerVars, batch_in_epoch, time_ns, requested, first_seen>>

FinishKeepsStarted(id, fail) ==
    LET m == markers[id]
    IN  /\ IF ~m.started
           THEN /\ fail = 0
                /\ ret' = Raised("finish", id, RuntimeError)
                /\ delivered' = << >>
           ELSE /\ fail \in 0..Len(FinishCalls(m))
                /\ delivered' = DeliveredBefore(FinishCalls(m), fail)
                /\ ret' = IF fail = 0
                          THEN Returned("finish", id, None)
                          ELSE Raised("finish", id, HandlerError)
        /\ UNCHANGED <<profilerVars, markers, batch_in_epoch, time_ns, requested, first_seen>>

Finish(id, fail) ==
    LET m == markers[id]
    IN  /\ IF ~m.started
           THEN /\ fail = 0
                /\ ret' = Raised("finish", id, RuntimeError)
                /\ delivered' = << >>
                /\ UNCHANGED markers
           ELSE /\ fail \in 0..Len(FinishCalls(m))
                /\ delivered' = DeliveredBefore(FinishCalls(m), fail)
                /\ markers' = [markers EXCEPT ![id].started = (fail # 0)]
                /\ ret' = IF fail = 0
                          THEN Returned("finish", id, None)
                          ELSE Raised("finish", id, HandlerError)
        /\ UNCHANGED <<profilerVars, batch_in_epoch, time_ns, requested, first_seen>>

InstantCallsFrozen(m, a) ==
    IF m.action_at_start \in m.actions THEN FanOut(InstantEvent(m)) ELSE << >>

InstantCalls(m, a) ==
    IF a \in m.actions THEN FanOut(InstantEvent(m)) ELSE << >>

Instant(id, fail) ==
    LET m == markers[id]
        a == get_action(batch_in_epoch)
    IN  /\ IF a = ZeroDivisionError
           THEN /\ fail = 0
                /\ ret' = Raised("instant", id, ZeroDivisionError)
                /\ delivered' = << >>
           ELSE /\ fail \in 0..Len(InstantCalls(m, a))
                /\ delivered' = DeliveredBefore(InstantCalls(m, a), fail)
                /\ ret' = IF fail = 0
                          THEN Returned("instant", id, None)
                          ELSE Raised("instant", id, HandlerError)
        /\ UNCHANGED <<profilerVars, markers, batch_in_epoch, time_ns, requested, first_seen>>

CounterCalls(m, a, values) ==
    IF a \in m.actions THEN FanOut(CounterEvent(m, values)) ELSE << >>

Counter(id, values, fail) ==
    LET m == markers[id]
        a == get_action(batch_in_epoch)
    IN  /\ IF a = ZeroDivisionError
           THEN /\ fail = 0
                /\ ret' = Raised("counter", id, ZeroDivisionError)
                /\ delivered' = << >>
           ELSE /\ fail \in 0..Len(CounterCalls(m, a, values))
                /\ delivered' = DeliveredBefore(CounterCalls(m, a, values), fail)
                /\ ret' = IF fail = 0
                          THEN Returned("counter", id, None)
                          ELSE Raised("counter", id, HandlerError)
        /\ UNCHANGED <<profilerVars, markers, batch_in_epoch, time_ns, requested, first_seen>>

(***************************************************************************)
(* The profiler in a training run: a few cycle configurations, the host    *)
(* loop, and every operation of the Profiler and of its Markers.           *)
(***************************************************************************)
ProfilerConfigs ==
    {[skip_first |-> 0, wait |-> 0, warmup |-> 1, active |-> 1, repeat |-> 1],
     [skip_first |-> 1, wait |-> 1, warmup |-> 0, active |-> 1, repeat |-> 0],
     [skip_first |-> 1, wait |-> 0, warmup |-> 1, active |-> 2, repeat |-> 1]}

Init ==
    /\ \E c \in ProfilerConfigs :
          /\ skip_first = c.skip_first
          /\ wait = c.wait
          /\ warmup = c.warmup
          /\ active = c.active
          /\ repeat = c.repeat
    /\ ProfilerInit

\* the markers of the run are obtained from Profiler.marker under these names
RunNames == {"x"}

\* an operation makes at most two fan-outs: the duration and the instant event
MaxFail == 2 * NumHandlers

Next ==
    \/ NextBatch /\ NoCallerStep
    \/ NextEpoch /\ NoCallerStep
    \/ Tick /\ NoCallerStep
    \/ \E b \in 0..MaxBatch : GetActionCall(b) /\ NoCallerStep
    \/ \E name \in RunNames, args \in MarkerArgs :
          ProfilerMarker(name, args) /\ NoCallerStep
    \/ \E id \in DOMAIN markers, fail \in 0..MaxFail : Start(id, fail) /\ NoCallerStep
    \/ \E id \in DOMAIN markers, fail \in 0..MaxFail : Finish(id, fail) /\ NoCallerStep
    \/ \E id \in DOMAIN markers, fail \in 0..MaxFail : Instant(id, fail) /\ NoCallerStep
    \/ \E id \in DOMAIN markers, values \in CounterValues, fail \in 0..MaxFail :
          Counter(id, values, fail) /\ NoCallerStep

Spec == Init /\ [][Next]_vars

(***************************************************************************)
(* The marker registry on its own: a Profiler with the constructor's       *)
(* default cycle, whose callers obtain markers from Profiler.marker,       *)
(* construct Markers directly, and start and finish them (no handler       *)
(* fails).                                                                 *)
(***************************************************************************)
InitRegistry ==
    /\ skip_first = 0
    /\ wait = 0
    /\ warmup = 1
    /\ active = 4
    /\ repeat = 1
    /\ ProfilerInit

NextRegistry ==
    \/ \E name \in Names, args \in MarkerArgs :
          ProfilerMarker(name, args) /\ NoCallerStep
    \/ \E name \in Names, args \in MarkerArgs :
          DirectMarker(name, args) /\ NoCallerStep
    \/ \E id \in DOMAIN markers : Start(id, 0) /\ NoCallerStep
    \/ \E id \in DOMAIN markers : Finish(id, 0) /\ NoCallerStep

SpecRegistry == InitRegistry /\ [][NextRegistry]_vars

(***************************************************************************)
(* Marker.__enter__ on behalf of `with marker:` (kind "with") or of the    *)
(* wrapped function of Marker.__call__ (kind "call"): start(); the body is *)
(* entered only if start() returned.                                       *)
(***************************************************************************)
BodyError == "BodyError"

FuncResults == {None, "result"}

Enter(kind, id, fail) ==
    /\ scope.pc # "body"
    /\ Start(id, fail)
    /\ scope' = [scope EXCEPT
                    !.pc = IF ret'.error = None THEN "body" ELSE "none",
                    !.kind = kind,
                    !.id = id,
                    !.raised = FALSE,
                    !.result = None,
                    !.value = None,
                    !.error = ret'.error,
                    !.calls = IF kind = "call" THEN @ + 1 ELSE @,
                    !.unmatched = @ \/ (get_action(batch_in_epoch) \notin markers[id].actions),
                    !.failed = @ \/ (ret'.error = HandlerError)]
    /\ UNCHANGED mergeVars

(***************************************************************************)
(* The body returns result or raises, and Marker.__exit__ runs finish().   *)
(* __exit__ returns None, so an exception of the body goes on to the       *)
(* caller unless finish() raises, and then that exception goes on instead. *)
(* The wrapped function has no return statement: its caller receives None. *)
(***************************************************************************)
ExitSkipsFinishOnRaise(raises, result, fail) ==
    /\ scope.pc = "body"
    /\ raises => result = None
    /\ IF raises
       THEN /\ fail = 0
            /\ ret' = Raised("body", scope.id, BodyError)
            /\ delivered' = << >>
            /\ UNCHANGED <<profilerVars, markers, batch_in_epoch, time_ns, requested, first_seen>>
       ELSE Finish(scope.id, fail)
    /\ scope' = [scope EXCEPT
                    !.pc = "left",
                    !.raised = raises,
                    !.result = result,
                    !.value = None,
                    !.error = IF raises THEN BodyError ELSE ret'.error,
                    !.failed = @ \/ (ret'.error = HandlerError)]
    /\ UNCHANGED mergeVars

Exit(raises, result, fail) ==
    /\ scope.pc = "body"
    /\ raises => result = None
    /\ Finish(scope.id, fail)
    /\ scope' = [scope EXCEPT
                    !.pc = "left",
                    !.raised = raises,
                    !.result = result,
                    !.value = None,
                    !.error = IF ret'.error # None
                              THEN ret'.error
                              ELSE IF raises THEN BodyError ELSE None,
                    !.failed = @ \/ (ret'.error = HandlerError)]
    /\ UNCHANGED mergeVars

(***************************************************************************)
(* What the handlers have received so far: for each handler, the is_start  *)
(* flags of its duration events in order of arrival.  An operation hands   *)
(* a handler at most one duration event.                                   *)
(***************************************************************************)
DurationsOf(h, calls) ==
    LET hits == {i \in DOMAIN calls :
                    calls[i].handler = _event_handlers[h] /\ calls[i].event.kind = "duration"}
    IN  IF hits = {}
        THEN << >>
        ELSE LET i == CHOOSE j \in hits : TRUE IN <<calls[i].event.is_start>>

HandlersRecord ==
    durations' = [h \in DOMAIN durations |-> durations[h] \o DurationsOf(h, delivered')]

(***************************************************************************)
(* `with marker:` regions: the caller obtains markers, enters and leaves   *)
(* regions whose bodies return or raise while the host loop advances, and  *)
(* also starts and finishes markers by hand; handlers may fail.            *)
(***************************************************************************)
NextScope ==
    \/ NextBatch /\ NoCallerStep
    \/ NextEpoch /\ NoCallerStep
    \/ \E name \in RunNames, args \in MarkerArgs :
          ProfilerMarker(name, args) /\ NoCallerStep
    \/ \E id \in DOMAIN markers : Start(id, 0) /\ NoCallerStep
    \/ \E id \in DOMAIN markers : Finish(id, 0) /\ NoCallerStep
    \/ \E id \in DOMAIN markers, fail \in 0..MaxFail :
          Enter("with", id, fail) /\ UNCHANGED durations
    \/ \E raises \in BOOLEAN, result \in FuncResults, fail \in 0..MaxFail :
          Exit(raises, result, fail) /\ UNCHANGED durations

SpecScope == Init /\ [][NextScope]_vars

(***************************************************************************)
(* A function decorated with a marker (Marker.__call__): the only use of   *)
(* the marker is to call the wrapped function, at most MaxCalls times,     *)
(* while the host loop advances; handlers may fail.                        *)
(***************************************************************************)
NextDecorated ==
    \/ NextBatch /\ HandlersRecord /\ UNCHANGED <<scope, mergeVars>>
    \/ NextEpoch /\ HandlersRecord /\ UNCHANGED <<scope, mergeVars>>
    \/ \E name \in RunNames, args \in MarkerArgs :
          ProfilerMarker(name, args) /\ HandlersRecord /\ UNCHANGED <<scope, mergeVars>>
    \/ \E id \in DOMAIN markers, fail \in 0..MaxFail :
          /\ scope.calls < MaxCalls
          /\ Enter("call", id, fail)
          /\ HandlersRecord
    \/ \E raises \in BOOLEAN, result \in FuncResults, fail \in 0..MaxFail :
          Exit(raises, result, fail) /\ HandlersRecord

SpecDecorated == Init /\ [][NextDecorated]_vars

(***************************************************************************)
(* Markers started and finished by hand: the caller obtains markers under  *)
(* two names and starts and finishes them in any order while the host loop *)
(* advances (no handler fails).  Each handler keeps, in order of arrival,  *)
(* the marker name and is_start of the duration events it received; no     *)
(* marker is started once a handler holds MaxCalls pairs.                  *)
(***************************************************************************)
NamedDurationsOf(h, calls) ==
    LET hits == {i \in DOMAIN calls :
                    calls[i].handler = _event_handlers[h] /\ calls[i].event.kind = "duration"}
    IN  IF hits = {}
        THEN << >>
        ELSE LET i == CHOOSE j \in hits : TRUE
             IN  <<[name |-> calls[i].event.name, is_start |-> calls[i].event.is_start]>>

HandlersRecordByName ==
    durations' = [h \in DOMAIN durations |-> durations[h] \o NamedDurationsOf(h, delivered')]

\* a cycle of one WARMUP and two ACTIVE batches, SKIP for the rest of the epoch
InitPairs ==
    /\ skip_first = 0
    /\ wait = 0
    /\ warmup = 1
    /\ active = 2
    /\ repeat = 1
    /\ ProfilerInit

NextPairs ==
    \/ NextBatch /\ HandlersRecordByName /\ UNCHANGED <<scope, mergeVars>>
    \/ NextEpoch /\ HandlersRecordByName /\ UNCHANGED <<scope, mergeVars>>
    \/ \E name \in Names :
          ProfilerMarker(name, DefaultArgs) /\ HandlersRecordByName
          /\ UNCHANGED <<scope, mergeVars>>
    \/ \E id \in DOMAIN markers :
          /\ \A h \in DOMAIN durations : Len(durations[h]) < 2 * MaxCalls
          /\ Start(id, 0)
          /\ HandlersRecordByName
          /\ UNCHANGED <<scope, mergeVars>>
    \/ \E id \in DOMAIN markers :
          Finish(id, 0) /\ HandlersRecordByName /\ UNCHANGED <<scope, mergeVars>>

SpecPairs == InitPairs /\ [][NextPairs]_vars

(***************************************************************************)
(* Profiler.merge_traces, called once by each rank at the end of the run.  *)
(* A rank is "running" before the call, at the "barrier" inside            *)
(* dist.barrier(), "passed" once the barrier has let it go, "merging"      *)
(* while it scans the trace folders, and "returned" after the call.        *)
(***************************************************************************)
NoProfilingStep ==
    UNCHANGED <<profilerVars, markers, batch_in_epoch, time_ns, delivered, ret, requested,
                first_seen, callerVars>>

MergeCallChecksRankFirst(r) ==
    /\ rank_pc[r] = "running"
    /\ rank_pc' = [rank_pc EXCEPT
                      ![r] = IF get_local_rank(r) = 0 THEN "barrier" ELSE "returned"]
    /\ UNCHANGED <<merged, scanVars>>

\* merge_traces without its barrier
MergeCallSkipsBarrier(r) ==
    /\ rank_pc[r] = "running"
    /\ rank_pc' = [rank_pc EXCEPT ![r] = "passed"]
    /\ UNCHANGED <<merged, scanVars>>

MergeCall(r) ==
    /\ rank_pc[r] = "running"
    /\ rank_pc' = [rank_pc EXCEPT ![r] = "barrier"]
    /\ UNCHANGED <<merged, scanVars>>

\* dist.barrier() returns in a rank once every rank has entered it
BarrierRelease(r) ==
    /\ rank_pc[r] = "barrier"
    /\ \A q \in Ranks : rank_pc[q] # "running"
    /\ rank_pc' = [rank_pc EXCEPT ![r] = "passed"]
    /\ UNCHANGED <<merged, scanVars>>

LocalRankCheckSkipped(r) ==
    /\ rank_pc[r] = "passed"
    /\ rank_pc' = [rank_pc EXCEPT ![r] = "merging"]
    /\ UNCHANGED <<merged, scanVars>>

LocalRankCheck(r) ==
    /\ rank_pc[r] = "passed"
    /\ rank_pc' = [rank_pc EXCEPT
                      ![r] = IF ~(get_local_rank(r) = 0) THEN "returned" ELSE "merging"]
    /\ UNCHANGED <<merged, scanVars>>

(***************************************************************************)
(* The rest of merge_traces in a rank that goes on after the local rank    *)
(* test: the folders of the JSONTraceHandler and TorchProfiler callbacks   *)
(* are walked, the files ending with .json are collected folder by folder, *)
(* and the merger is called with them.  Nothing is caught: an error of the *)
(* walk or of the merger is raised to the caller of merge_traces.          *)
(***************************************************************************)
trace_folders_of_handlers ==
    [i \in 1..Len(_event_handlers) |-> output_directory(_event_handlers[i])]

trace_folders ==
    LET IsTraceCallback(callback) == callback.kind \in {"JSONTraceHandler", "TorchProfiler"}
        found == SelectSeq(callbacks, IsTraceCallback)
    IN  [i \in 1..Len(found) |-> found[i].dir]

\* os.walk(trace_folder): a missing or unreadable folder yields nothing
os_walk_strict(trace_folder) ==
    IF trace_folder \in DOMAIN fs /\ fs[trace_folder].readable
    THEN [error |-> None, filenames |-> fs[trace_folder].files]
    ELSE [error |-> "OSError", filenames |-> {}]

os_walk(trace_folder) ==
    IF trace_folder \in DOMAIN fs /\ fs[trace_folder].readable
    THEN [error |-> None, filenames |-> fs[trace_folder].files]
    ELSE [error |-> None, filenames |-> {}]

\* filepath.endswith(".json")
endswith_json(filepath) == filepath.ext = "json"

\* composer.profiler.json_trace_merger.merge_traces: fragments that cannot be
\* read are skipped, and no fragments give an empty merge
merge_traces(files) ==
    [error |-> None,
     output |-> {f \in UNION {files[i] : i \in DOMAIN files} : f.readable}]

MergeWrite(r) ==
    LET folders == trace_folders
        walks == [i \in DOMAIN folders |-> os_walk(folders[i])]
        files == [i \in DOMAIN folders |->
                     {f \in walks[i].filenames : endswith_json(f)}]
        failed_walks == {i \in DOMAIN folders : walks[i].error # None}
        result == merge_traces(files)
    IN  /\ rank_pc[r] = "merging"
        /\ IF failed_walks # {}
           THEN /\ rank_pc' = [rank_pc EXCEPT ![r] = "raised"]
                /\ UNCHANGED <<merged, trace_files, merged_output>>
           ELSE /\ trace_files' = files
                /\ merged' = merged \cup {r}
                /\ merged_output' = result.output
                /\ rank_pc' = [rank_pc EXCEPT
                                  ![r] = IF result.error = None THEN "returned" ELSE "raised"]
        /\ UNCHANGED <<callbacks, fs>>

NextMerge ==
    \/ \E r \in Ranks : MergeCall(r) /\ NoProfilingStep
    \/ \E r \in Ranks : BarrierRelease(r) /\ NoProfilingStep
    \/ \E r \in Ranks : LocalRankCheck(r) /\ NoProfilingStep
    \/ \E r \in Ranks : MergeWrite(r) /\ NoProfilingStep

SpecMerge == InitRegistry /\ [][NextMerge]_vars

(***************************************************************************)
(* The scan on its own.  The Profiler was constructed with handlers or     *)
(* with none (then the default JSONTraceHandler is installed); the host's  *)
(* callbacks and the trace directories are any of the cases below; every   *)
(* rank has just passed the barrier of merge_traces.                       *)
(***************************************************************************)
SuppliedHandlers == {<< >>, [i \in 1..NumHandlers |-> i]}

event_handlers_or_default(event_handlers) ==
    IF event_handlers # << >> THEN event_handlers ELSE <<JSONTraceHandler>>

Dirs == {JSONTraceHandler} \cup (1..NumHandlers) \cup {tensorboard_trace_handler_dir}

HandlerCallbacks(handlers) ==
    [i \in 1..Len(handlers) |->
        [kind |-> "JSONTraceHandler", dir |-> output_directory(handlers[i])]]

TorchProfiler == [kind |-> "TorchProfiler", dir |-> tensorboard_trace_handler_dir]

HostCallbacks(handlers) ==
    {<< >>,
     <<[kind |-> "Callback", dir |-> output_directory(handlers[1])]>>,
     HandlerCallbacks(handlers),
     <<TorchProfiler>>,
     HandlerCallbacks(handlers) \o <<TorchProfiler>>}

TraceFile(dir, name, ext, readable) ==
    [dir |-> dir, name |-> name, ext |-> ext, readable |-> readable]

FileSystems ==
    {<< >>,
     [d \in Dirs |->
         [readable |-> TRUE,
          files |-> {TraceFile(d, "rank0", "json", TRUE), TraceFile(d, "log", "txt", TRUE)}]],
     [d \in Dirs \ {tensorboard_trace_handler_dir} |->
         [readable |-> (d = JSONTraceHandler),
          files |-> {TraceFile(d, "rank0", "json", FALSE), TraceFile(d, "rank1", "json", TRUE)}]],
     [d \in {tensorboard_trace_handler_dir} |->
         [readable |-> TRUE, files |-> {TraceFile(d, "json", "txt", TRUE)}]]}

InitScan ==
    /\ skip_first = 0
    /\ wait = 0
    /\ warmup = 1
    /\ active = 4
    /\ repeat = 1
    /\ _names_to_markers = << >>
    /\ \E event_handlers \in SuppliedHandlers :
          _event_handlers = event_handlers_or_default(event_handlers)
    /\ _action = SKIP
    /\ markers = << >>
    /\ batch_in_epoch = 0
    /\ time_ns = 0
    /\ delivered = << >>
    /\ ret = Returned("__init__", None, None)
    /\ requested = {}
    /\ first_seen = [arg |-> NoCall, value |-> None, again |-> FALSE]
    /\ scope = NoScope
    /\ durations = [h \in 1..NumHandlers |-> << >>]
    /\ rank_pc = [r \in Ranks |-> "passed"]
    /\ merged = {}
    /\ callbacks \in HostCallbacks(_event_handlers)
    /\ fs \in FileSystems
    /\ trace_files = << >>
    /\ merged_output = {}

NextScan ==
    \/ \E r \in Ranks : LocalRankCheck(r) /\ NoProfilingStep
    \/ \E r \in Ranks : MergeWrite(r) /\ NoProfilingStep

SpecScan == InitScan /\ [][NextScan]_vars

(***************************************************************************)
(* The sampling schedule written out: one cycle is wait SKIPs, then warmup *)
(* WARMUPs, then active ACTIVEs.                                           *)
(***************************************************************************)
CycleLen == wait + warmup + active

CyclePattern ==
    [i \in 1..CycleLen |->
        IF i <= wait THEN SKIP ELSE IF i <= wait + warmup THEN WARMUP ELSE ACTIVE]

ReferenceAction(batch_idx) ==
    IF repeat # 0 /\ batch_idx >= CycleLen * repeat
    THEN SKIP
    ELSE CyclePattern[(batch_idx % CycleLen) + 1]

DefaultCycle == wait = 0 /\ warmup = 1 /\ active = 4

\* C1: with a cycle length above 0, get_action(batch_idx) returns SKIP once
\* the repeats are exhausted (repeat # 0 and batch_idx >= cycle_len * repeat)
\* and otherwise the entry of the wait/warmup/active cycle at batch_idx mod
\* cycle_len; with wait=0, warmup=1, active=4, repeat=1 that is WARMUP at 0,
\* ACTIVE at 1..4 and SKIP from 5 on.
C1_GetActionMatchesReference ==
    (ret.op = "get_action" /\ CycleLen > 0) =>
        /\ ret.error = None
        /\ ret.value = ReferenceAction(ret.arg)
        /\ (DefaultCycle /\ repeat = 1) =>
              ret.value = IF ret.arg = 0 THEN WARMUP
                          ELSE IF ret.arg <= 4 THEN ACTIVE ELSE SKIP

C1_Witness ==
    /\ ret.op = "get_action"
    /\ DefaultCycle /\ repeat = 1
    /\ ret.arg = 5
    /\ ret.value = SKIP

\* C2: with a cycle length of 0, get_action returns SKIP for every batch_idx
\* and every repeat, and raises nothing.
C2_ZeroCycleReturnsSkip ==
    (ret.op = "get_action" /\ CycleLen = 0) =>
        (ret.error = None /\ ret.value = SKIP)

\* C3: with repeat = 0 and a cycle length above 0, get_action has period
\* cycle_len: the action at batch_idx + cycle_len is the action at batch_idx,
\* a batch is SKIP only in the wait part of its cycle, and with wait=0,
\* warmup=1, active=4 batch 5 is WARMUP like batch 0.
C3_UnboundedRepeatIsPeriodic ==
    (ret.op = "get_action" /\ repeat = 0 /\ CycleLen > 0) =>
        /\ ret.error = None
        /\ get_action(ret.arg + CycleLen) = ret.value
        /\ (first_seen.arg + CycleLen = ret.arg) => ret.value = first_seen.value
        /\ (ret.value = SKIP) => (ret.arg % CycleLen < wait)
        /\ (DefaultCycle /\ ret.arg \in {0, 5}) => ret.value = WARMUP

C3_Witness ==
    /\ ret.op = "get_action"
    /\ DefaultCycle /\ repeat = 0
    /\ first_seen.arg = 0
    /\ ret.arg = 5
    /\ ret.value = WARMUP

\* C4, as claimed: with repeat = 0, every batch from wait + warmup on is
\* ACTIVE until the epoch ends.  (Stated for configurations that have active
\* batches; the zero cycle length is C2's case.)
C4_ActiveForRestOfEpoch ==
    (ret.op = "get_action" /\ repeat = 0 /\ active > 0
        /\ ret.arg >= wait + warmup) =>
        ret.value = ACTIVE

\* C4, amended: with repeat = 0 and a cycle length above 0 the cycle repeats
\* for the whole epoch, so a batch is ACTIVE exactly when batch_idx mod
\* cycle_len >= wait + warmup: the batches wait+warmup .. cycle_len-1 of the
\* first cycle are ACTIVE, and each later cycle starts again with its wait
\* and warmup batches.
C4_ActiveExactlyInActivePhase ==
    (ret.op = "get_action" /\ repeat = 0 /\ CycleLen > 0) =>
        /\ (ret.value = ACTIVE) <=> (ret.arg % CycleLen >= wait + warmup)
        /\ (wait + warmup <= ret.arg /\ ret.arg < CycleLen) => ret.value = ACTIVE

C4_Witness ==
    /\ ret.op = "get_action"
    /\ repeat = 0
    /\ active > 0
    /\ ret.arg >= CycleLen
    /\ ret.value = WARMUP

\* C5: the first skip_first batches of every epoch are skipped: get_action
\* is SKIP for every batch_idx < skip_first, and while batch_in_epoch is
\* below skip_first no start(), instant() or counter() of a marker with the
\* default actions (WARMUP, ACTIVE) hands an event to a handler.
C5_FirstBatchesAreSkipped ==
    [][/\ (ret'.op = "get_action" /\ ret'.arg < skip_first) =>
              (ret'.error = None /\ ret'.value = SKIP)
       /\ (/\ ret'.op \in {"start", "instant", "counter"}
           /\ batch_in_epoch < skip_first
           /\ markers[ret'.arg].actions = DefaultArgs.actions) =>
              delivered' = << >>]_vars

\* C6: get_action is a pure function of the batch index and the cycle
\* configuration: a call changes nothing of the Profiler, of the Markers or
\* of the host, and whatever marker operations, batches and epochs lie
\* between two calls with the same batch index, both return the same action;
\* so the action of the host's current batch is in every epoch the one first
\* returned for that batch index.
C6_GetActionIsPure ==
    /\ [](first_seen.arg = batch_in_epoch =>
              get_action(batch_in_epoch) = first_seen.value)
    /\ [][ret'.op = "get_action" =>
              /\ UNCHANGED <<profilerVars, markers, batch_in_epoch>>
              /\ (ret'.arg = first_seen.arg) =>
                     (ret'.error = None /\ ret'.value = first_seen.value)]_vars

C6_Witness ==
    /\ ret.op = "get_action"
    /\ first_seen.again
    /\ ret.value = ACTIVE
    /\ batch_in_epoch # ret.arg
    /\ markers # << >>
    /\ markers[1].started
    /\ markers[1].action_at_start = WARMUP

\* C7: the registry holds exactly one Marker for each name asked of
\* Profiler.marker, a call returns the registry's Marker of that name, and an
\* entry, once made, is never replaced or removed, so every call for a name
\* returns the same instance.
C7_OneMarkerPerName ==
    /\ [](/\ DOMAIN _names_to_markers = requested
          /\ \A n \in DOMAIN _names_to_markers :
                /\ _names_to_markers[n] \in DOMAIN markers
                /\ markers[_names_to_markers[n]].name = n
          /\ ret.op = "marker" => ret.value = _names_to_markers[ret.arg.name])
    /\ [][\A n \in DOMAIN _names_to_markers :
              /\ n \in DOMAIN _names_to_markers'
              /\ _names_to_markers'[n] = _names_to_markers[n]]_vars

C7_Witness ==
    /\ ret.op = "marker"
    /\ requested = Names
    /\ markers[ret.value].actions # ret.arg.args.actions

\* C8: Profiler.marker on a name that exists sets that marker's categories
\* to the categories of the call and changes nothing else: not its actions,
\* its record_instant flags, its started flag or action_at_start, nor any
\* other marker or the registry, whatever actions and flags the call passes.
C8_LookupChangesOnlyCategories ==
    [][(ret'.op = "marker" /\ ret'.arg.name \in DOMAIN _names_to_markers) =>
          /\ markers' = [markers EXCEPT
                            ![_names_to_markers[ret'.arg.name]].categories =
                                ret'.arg.args.categories]
          /\ UNCHANGED _names_to_markers]_vars

C8_Witness ==
    /\ ret.op = "marker"
    /\ Len(markers) = 2
    /\ markers[ret.value].started
    /\ markers[ret.value].actions # ret.arg.args.actions
    /\ markers[ret.value].record_instant_on_start # ret.arg.args.record_instant_on_start
    /\ markers[ret.value].categories = ret.arg.args.categories

\* C9: constructing a Marker directly for a name that is registered raises
\* at once and leaves the registry and every marker as they were.
C9_DirectConstructionOfRegisteredNameFails ==
    [][(ret'.op = "Marker" /\ ret'.arg.name \in DOMAIN _names_to_markers) =>
          /\ ret'.error = RuntimeError
          /\ UNCHANGED <<_names_to_markers, markers>>]_vars

C9_Witness ==
    /\ ret.op = "Marker"
    /\ ret.error = RuntimeError
    /\ ret.arg.name \in DOMAIN _names_to_markers
    /\ markers[_names_to_markers[ret.arg.name]].started

\* C10: no two distinct successfully constructed Markers of the Profiler
\* have the same name, whatever the order of Profiler.marker calls and
\* direct constructions.
C10_MarkerNamesAreUnique ==
    \A i, j \in DOMAIN markers :
        markers[i].name = markers[j].name => i = j

\* C11: start() on a started marker and finish() on a marker that is not
\* started raise; no handler is handed an event and the marker keeps its
\* started flag and its action_at_start (as does every other marker).
C11_ProtocolViolationsRaise ==
    [][/\ (ret'.op = "start" /\ markers[ret'.arg].started) =>
              (ret'.error = RuntimeError /\ delivered' = << >> /\ markers' = markers)
       /\ (ret'.op = "finish" /\ ~markers[ret'.arg].started) =>
              (ret'.error = RuntimeError /\ delivered' = << >> /\ markers' = markers)]_vars

C11_Witness ==
    /\ ret.op = "start"
    /\ ret.error = RuntimeError
    /\ markers[ret.arg].started
    /\ markers[ret.arg].action_at_start = SKIP
    /\ get_action(batch_in_epoch) \in markers[ret.arg].actions

\* C12: when the action computed by start() is not among the marker's
\* actions, start() hands no event to any handler and keeps that action; the
\* action stays frozen while the marker is started; and finish() hands no
\* event to any handler either, whatever the batch has become by then.
C12_UnmatchedPairRecordsNothing ==
    [][/\ (/\ ret'.op = "start"
           /\ ~markers[ret'.arg].started
           /\ get_action(batch_in_epoch) \in ProfilerAction
           /\ get_action(batch_in_epoch) \notin markers[ret'.arg].actions) =>
              /\ delivered' = << >>
              /\ markers'[ret'.arg].action_at_start = get_action(batch_in_epoch)
       /\ \A id \in DOMAIN markers :
              (markers[id].started /\ markers'[id].started) =>
                  markers'[id].action_at_start = markers[id].action_at_start
       /\ (/\ ret'.op = "finish"
           /\ markers[ret'.arg].started
           /\ markers[ret'.arg].action_at_start \notin markers[ret'.arg].actions) =>
              delivered' = << >>]_vars

C12_Witness ==
    /\ ret.op = "finish"
    /\ ret.error = None
    /\ delivered = << >>
    /\ markers[ret.arg].action_at_start = SKIP
    /\ get_action(batch_in_epoch) \in markers[ret.arg].actions

MarkerOps == {"start", "finish", "instant", "counter"}

\* C16: an operation during which no handler fails hands each of its events
\* to every registered handler exactly once, in registration order, with the
\* marker's name, its current categories and the event's fields (timestamp,
\* is_start, values) as the caller gave them; the Profiler's state is
\* untouched, instant() and counter() leave every marker untouched, and
\* start() and finish() touch only the bookkeeping of their own marker.
C16_FanOutReachesEveryHandlerInOrder ==
    [][(ret'.op \in MarkerOps /\ ret'.error = None) =>
          LET id == ret'.arg
              m == markers[id]
              N == Len(_event_handlers)
              d == delivered'
              a == IF ret'.op = "finish"
                   THEN m.action_at_start
                   ELSE get_action(batch_in_epoch)
              instant_too == CASE ret'.op = "start" -> m.record_instant_on_start
                               [] ret'.op = "finish" -> m.record_instant_on_finish
                               [] OTHER -> FALSE
              records == IF a \in m.actions
                         THEN (IF instant_too THEN 2 ELSE 1)
                         ELSE 0
          IN  /\ Len(d) = records * N
              /\ \A i \in 1..Len(d) :
                    /\ d[i].handler = _event_handlers[((i - 1) % N) + 1]
                    /\ d[i].event = d[i - ((i - 1) % N)].event
                    /\ d[i].event.name = m.name
                    /\ d[i].event.categories = m.categories
                    /\ d[i].event.kind =
                          (CASE ret'.op = "instant" -> "instant"
                             [] ret'.op = "counter" -> "counter"
                             [] OTHER -> IF i <= N THEN "duration" ELSE "instant")
                    /\ d[i].event.kind = "duration" =>
                          /\ d[i].event.is_start = (ret'.op = "start")
                          /\ d[i].event.timestamp = batch_in_epoch
                    /\ d[i].event.kind = "instant" =>
                          d[i].event.timestamp = batch_in_epoch
                    /\ d[i].event.kind = "counter" =>
                          d[i].event.values \in CounterValues
              /\ UNCHANGED profilerVars
              /\ ret'.op \in {"instant", "counter"} => UNCHANGED markers
              /\ markers' = [markers EXCEPT
                                ![id].started = markers'[id].started,
                                ![id].action_at_start = markers'[id].action_at_start]]_vars

C16_Witness ==
    /\ ret.op = "start"
    /\ ret.error = None
    /\ Len(delivered) = 2 * NumHandlers
    /\ delivered[1].handler # delivered[2].handler
    /\ delivered[1].event.categories = << >>
    /\ delivered[NumHandlers + 1].event.kind = "instant"

\* C17: when a handler fails during an operation, the operation raises that
\* failure; the handlers called up to the failing one were called in
\* registration order, each once per event, and no handler after it and no
\* later event of the operation is delivered.  An operation that returns has
\* lost no delivery.
C17_HandlerFailurePropagates ==
    [][ret'.op \in MarkerOps =>
          LET m == markers[ret'.arg]
              N == Len(_event_handlers)
              d == delivered'
              a == IF ret'.op = "finish"
                   THEN m.action_at_start
                   ELSE get_action(batch_in_epoch)
              instant_too == CASE ret'.op = "start" -> m.record_instant_on_start
                               [] ret'.op = "finish" -> m.record_instant_on_finish
                               [] OTHER -> FALSE
              full == IF a \in m.actions
                      THEN (IF instant_too THEN 2 * N ELSE N)
                      ELSE 0
          IN  /\ ret'.error = HandlerError =>
                    /\ Len(d) < full
                    /\ \A i \in 1..Len(d) :
                          /\ d[i].handler = _event_handlers[((i - 1) % N) + 1]
                          /\ d[i].event = d[i - ((i - 1) % N)].event
                          /\ d[i].event.kind =
                                (CASE ret'.op = "instant" -> "instant"
                                   [] ret'.op = "counter" -> "counter"
                                   [] OTHER -> IF i <= N THEN "duration" ELSE "instant")
              /\ (ret'.error = None) = (Len(d) = full /\ ~(m.started /\ ret'.op = "start")
                                        /\ ~(~m.started /\ ret'.op = "finish"))]_vars

C17_Witness ==
    /\ ret.op = "start"
    /\ ret.error = HandlerError
    /\ Len(delivered) = NumHandlers + 1
    /\ delivered[NumHandlers].handler = _event_handlers[NumHandlers]
    /\ delivered[NumHandlers + 1].handler = _event_handlers[1]

\* C13 as stated: whenever a `with marker:` region whose marker is still
\* started is left, finish() has been called, the marker is not started
\* afterwards, and an exception of the body is what reaches the caller.
C13_RegionAlwaysLeavesMarkerFinished ==
    [][(scope.pc = "body" /\ scope'.pc = "left" /\ markers[scope.id].started) =>
          /\ ret'.op = "finish"
          /\ ret'.arg = scope.id
          /\ ~markers'[scope.id].started
          /\ scope'.raised => scope'.error = BodyError]_vars

\* C13 amended: a region is entered by a start() that returned and can be
\* left only through finish(), whether the body returns or raises.  If that
\* finish() returns, the marker is not started afterwards and the caller
\* gets the body's exception, if any; if it raises, its exception reaches
\* the caller instead and the started flag is left as it was.
C13_RegionRunsStartAndFinish ==
    [][/\ (scope.pc # "body" /\ scope'.pc = "body") =>
              /\ ret'.op = "start"
              /\ ret'.arg = scope'.id
              /\ ret'.error = None
              /\ ~markers[scope'.id].started
              /\ markers'[scope'.id].started
       /\ scope.pc = "body" => scope'.pc \in {"body", "left"}
       /\ (scope.pc = "body" /\ scope'.pc = "left") =>
              /\ ret'.op = "finish"
              /\ ret'.arg = scope.id
              /\ ret'.error = None =>
                    /\ ~markers'[scope.id].started
                    /\ scope'.error = IF scope'.raised THEN BodyError ELSE None
              /\ ret'.error # None =>
                    /\ scope'.error = ret'.error
                    /\ markers'[scope.id].started = markers[scope.id].started
              /\ ret'.error = HandlerError => markers'[scope.id].started]_vars

C13_Witness ==
    /\ scope.pc = "left"
    /\ scope.kind = "with"
    /\ scope.raised
    /\ scope.error = BodyError
    /\ ret.op = "finish"
    /\ ret.error = None
    /\ Len(delivered) = NumHandlers
    /\ ~markers[scope.id].started

Pairs(n) == [i \in 1..(2 * n) |-> i % 2 = 1]

\* C14: after N calls of a decorated function, each made under an action
\* the marker records and with no handler failing, every handler has
\* received N duration-start and N duration-end events as N consecutive
\* pairs, and no marker is started between calls; during the N-th call the
\* handlers hold N - 1 pairs and the start of the N-th.
C14_DecoratedCallsRecordPairs ==
    (~scope.unmatched /\ ~scope.failed) =>
        IF scope.pc = "body"
        THEN /\ markers[scope.id].started
             /\ \A h \in DOMAIN durations :
                   durations[h] = Pairs(scope.calls - 1) \o <<TRUE>>
        ELSE /\ \A id \in DOMAIN markers : ~markers[id].started
             /\ \A h \in DOMAIN durations : durations[h] = Pairs(scope.calls)

C14_Witness ==
    /\ scope.pc = "left"
    /\ scope.kind = "call"
    /\ scope.calls = MaxCalls
    /\ ~scope.unmatched
    /\ ~scope.failed
    /\ \A h \in DOMAIN durations : durations[h] = Pairs(MaxCalls)
    /\ ~markers[scope.id].started

\* C15 as stated: a call of the wrapped function that returns hands its
\* caller the value the original function returned.
C15_WrappedCallReturnsResult ==
    (scope.pc = "left" /\ scope.kind = "call" /\ scope.error = None) =>
        scope.value = scope.result

PastBarrier(r) == rank_pc[r] \in {"passed", "merging", "returned"}

\* C18: a rank is past the barrier of merge_traces() (has returned, or is
\* about to test its local rank, or scans and merges) only when every rank
\* has called merge_traces() and entered the barrier.
C18_NoRankPassesBarrierEarly ==
    \A r \in Ranks :
        PastBarrier(r) => \A q \in Ranks : rank_pc[q] # "running"

C18_Witness ==
    \E r, q \in Ranks :
        /\ rank_pc[r] = "returned"
        /\ rank_pc[q] = "barrier"
        /\ \A p \in Ranks : rank_pc[p] # "running"

\* C19: only ranks whose local rank is 0 scan and write; a rank whose local
\* rank is not 0 neither scans nor writes; on each node at most one process
\* has written, and exactly one once every rank of the node has returned.
C19_OnlyLocalRankZeroMerges ==
    /\ \A r \in Ranks :
          (rank_pc[r] = "merging" \/ r \in merged) => get_local_rank(r) = 0
    /\ \A n \in 0..(NumNodes - 1) :
          LET onNode == {r \in Ranks : NodeOf(r) = n}
          IN  /\ Cardinality(merged \cap onNode) <= 1
              /\ (\A r \in onNode : rank_pc[r] = "returned") =>
                     Cardinality(merged \cap onNode) = 1

C19_Witness ==
    /\ \A r \in Ranks : rank_pc[r] = "returned"
    /\ merged = {r \in Ranks : get_local_rank(r) = 0}
    /\ Cardinality(merged) = NumNodes
    /\ Cardinality(Ranks \ merged) > 0

\* C20 as stated: when every rank has called merge_traces() once and
\* returned, exactly one process of the whole run has merged and written.
C20_MergeRunsOncePerRun ==
    (\A r \in Ranks : rank_pc[r] = "returned") => Cardinality(merged) = 1

EventFields == {"name", "categories", "timestamp", "wall_clock_time_ns", "global_rank", "pid"}

\* C23 as stated: every event handed to a handler carries name, categories,
\* the host's logical timestamp, wall_clock_time_ns, global_rank and pid;
\* a duration event also carries is_start and a counter event values.
C23_EveryEventCarriesAllFields ==
    \A i \in DOMAIN delivered :
        LET e == delivered[i].event
        IN  /\ EventFields \subseteq DOMAIN e
            /\ e.kind = "duration" => "is_start" \in DOMAIN e
            /\ e.kind = "counter" => "values" \in DOMAIN e

\* C25: a start() that returns leaves its marker started, whether or not
\* the action at start is among the marker's actions; a finish() that
\* returns leaves it not started; a marker is created not started; and
\* nothing but a start() or finish() that returns changes a started flag.
C25_StartedFollowsStartAndFinish ==
    [][/\ (ret'.op = "start" /\ ret'.error = None) => markers'[ret'.arg].started
       /\ (ret'.op = "finish" /\ ret'.error = None) => ~markers'[ret'.arg].started
       /\ \A id \in DOMAIN markers' \ DOMAIN markers : ~markers'[id].started
       /\ \A id \in DOMAIN markers :
             markers'[id].started # markers[id].started =>
                 /\ ret'.op \in {"start", "finish"}
                 /\ ret'.error = None
                 /\ ret'.arg = id]_vars

C25_Witness ==
    /\ ret.op = "start"
    /\ ret.error = None
    /\ markers[ret.arg].started
    /\ markers[ret.arg].action_at_start \in ProfilerAction
    /\ markers[ret.arg].action_at_start \notin markers[ret.arg].actions
    /\ delivered = << >>

\* C26: instant() and counter(values) change no marker, and when no handler
\* fails they hand one event of their kind to every handler if the action
\* of the current batch is among the marker's actions, and none otherwise,
\* whatever the marker's started flag and action_at_start are.
C26_InstantAndCounterGateOnCurrentAction ==
    [][ret'.op \in {"instant", "counter"} =>
          LET m == markers[ret'.arg]
              N == Len(_event_handlers)
              d == delivered'
          IN  /\ markers' = markers
              /\ ret'.error = None =>
                    IF get_action(batch_in_epoch) \in m.actions
                    THEN /\ Len(d) = N
                         /\ \A i \in 1..N :
                               /\ d[i].handler = _event_handlers[i]
                               /\ d[i].event.kind = ret'.op
                               /\ d[i].event.name = m.name
                               /\ ret'.op = "counter" => d[i].event.values \in CounterValues
                    ELSE d = << >>]_vars

C26_Witness ==
    /\ ret.op = "instant"
    /\ ret.error = None
    /\ Len(delivered) = NumHandlers
    /\ markers[ret.arg].started
    /\ markers[ret.arg].action_at_start = SKIP
    /\ markers[ret.arg].action_at_start \notin markers[ret.arg].actions

\* C27: a start() or finish() during which no handler fails delivers an
\* instant event iff the action at start (frozen, for finish()) is among
\* the marker's actions and the marker's flag for that end is set; every
\* instant event of a start() or finish() comes after the duration event
\* has reached all handlers and carries that event's wall-clock time.
C27_InstantFollowsDuration ==
    [][(/\ ret'.op \in {"start", "finish"}
        /\ ret'.error \in {None, HandlerError}) =>
          LET m == markers[ret'.arg]
              N == Len(_event_handlers)
              d == delivered'
              a == IF ret'.op = "start"
                   THEN get_action(batch_in_epoch)
                   ELSE m.action_at_start
              flag == IF ret'.op = "start"
                      THEN m.record_instant_on_start
                      ELSE m.record_instant_on_finish
              instants == {i \in DOMAIN d : d[i].event.kind = "instant"}
          IN  /\ ret'.error = None =>
                    /\ (instants # {}) = (a \in m.actions /\ flag)
                    /\ instants \in {{}, (N + 1)..(2 * N)}
              /\ \A i \in instants :
                    /\ i > N
                    /\ \A j \in 1..N :
                          /\ d[j].event.kind = "duration"
                          /\ d[j].handler = _event_handlers[j]
                          /\ d[j].event.is_start = (ret'.op = "start")
                          /\ d[j].event.wall_clock_time_ns = d[i].event.wall_clock_time_ns]_vars

C27_Witness ==
    /\ ret.op = "finish"
    /\ ret.error = None
    /\ Len(delivered) = 2 * NumHandlers
    /\ delivered[2 * NumHandlers].event.kind = "instant"
    /\ delivered[2 * NumHandlers].event.wall_clock_time_ns = MaxTime
    /\ delivered[1].event.wall_clock_time_ns = MaxTime
    /\ get_action(batch_in_epoch) \notin markers[ret.arg].actions

\* C29: a handler failure leaves the started flag as it was before the
\* call: a start() in which a handler fails leaves the marker not started
\* with action_at_start updated and a proper prefix of the duration-start
\* deliveries made; a finish() in which a handler fails, also as the exit
\* of a region, leaves the marker started; a started marker stays started
\* until a finish() of it returns, and every start() on it raises the
\* already-started error.
C29_HandlerFailureKeepsStartedFlag ==
    [][/\ (ret'.op = "start" /\ ret'.error = HandlerError) =>
              LET id == ret'.arg
                  N == Len(_event_handlers)
                  d == delivered'
              IN  /\ ~markers[id].started
                  /\ ~markers'[id].started
                  /\ markers'[id].action_at_start = get_action(batch_in_epoch)
                  /\ markers'[id].action_at_start \in markers[id].actions
                  /\ \A i \in 1..Len(d) :
                        i <= N => /\ d[i].handler = _event_handlers[i]
                                  /\ d[i].event.kind = "duration"
                                  /\ d[i].event.is_start
       /\ (ret'.op = "finish" /\ ret'.error = HandlerError) =>
              /\ markers[ret'.arg].started
              /\ markers'[ret'.arg].started
       /\ \A id \in DOMAIN markers :
              (/\ markers[id].started
               /\ ~(ret'.op = "finish" /\ ret'.error = None /\ ret'.arg = id)) =>
                  markers'[id].started
       /\ (ret'.op = "start" /\ markers[ret'.arg].started) =>
              ret'.error = RuntimeError]_vars

C29_Witness ==
    /\ scope.pc = "left"
    /\ scope.kind = "with"
    /\ scope.error = HandlerError
    /\ ret.op = "start"
    /\ ret.arg = scope.id
    /\ ret.error = RuntimeError
    /\ markers[scope.id].started

DurationsFor(h, name) ==
    LET Named(e) == e.name = name
    IN  SelectSeq(durations[h], Named)

\* C24: for every marker and every handler, the duration events the handler
\* has received for the marker alternate start, end, start, end, ...
\* beginning with a start, and the last of them is a start exactly while
\* the marker is started under an action among its actions: a finish()
\* emits the duration-end iff its start() emitted the duration-start.
C24_DurationEventsAlternate ==
    \A h \in DOMAIN durations, name \in Names :
        LET seq == DurationsFor(h, name)
        IN  /\ \A i \in 1..Len(seq) : seq[i].is_start = (i % 2 = 1)
            /\ (Len(seq) % 2 = 1) =
                  (\E id \in DOMAIN markers :
                      /\ markers[id].name = name
                      /\ markers[id].started
                      /\ markers[id].action_at_start \in markers[id].actions)

C24_Witness ==
    /\ ret.op = "finish"
    /\ ret.error = None
    /\ get_action(batch_in_epoch) = SKIP
    /\ Len(delivered) = NumHandlers
    /\ \A h \in DOMAIN durations :
          /\ Len(DurationsFor(h, markers[ret.arg].name)) = 2
          /\ Len(durations[h]) > 2
          /\ ~durations[h][Len(durations[h])].is_start
          /\ durations[h][Len(durations[h])].name = markers[ret.arg].name

FilesPassed == UNION {trace_files[i] : i \in DOMAIN trace_files}

\* C22: merge_traces() raises in no rank, whatever handlers and callbacks
\* there are and whether the trace directories and fragments exist and can
\* be read: every rank with local rank 0 that has returned has called the
\* merger, and the merged trace holds the readable fragments it was given.
C22_MergeNeverFailsOnFragments ==
    /\ \A r \in Ranks :
          /\ rank_pc[r] # "raised"
          /\ (rank_pc[r] = "returned" /\ get_local_rank(r) = 0) => r \in merged
    /\ merged # {} => merged_output = {f \in FilesPassed : f.readable}

C22_Witness ==
    /\ \A r \in Ranks : rank_pc[r] = "returned"
    /\ merged # {}
    /\ \E i \in DOMAIN trace_folders : trace_folders[i] \notin DOMAIN fs
    /\ \E f \in FilesPassed : ~f.readable
    /\ merged_output # FilesPassed

\* C28 as stated: the files handed to the merger are exactly the files
\* ending with .json under the output directories of the members of the
\* Profiler's event-handler list.
C28_MergerGetsFragmentsOfEventHandlers ==
    merged # {} =>
        FilesPassed =
            {f \in UNION {os_walk(output_directory(_event_handlers[i])).filenames :
                             i \in DOMAIN _event_handlers} : f.ext = "json"}

\* C28 amended: the folders scanned are those of the JSONTraceHandler and
\* TorchProfiler callbacks of the host state, one per such callback and in
\* the order of state.callbacks, whether or not they are event handlers of
\* the Profiler; the merger is handed exactly the files ending with .json
\* in those folders that exist and can be listed.
C28_MergerGetsFragmentsOfCallbacks ==
    merged # {} =>
        LET scanned == {i \in DOMAIN callbacks :
                           callbacks[i].kind \in {"JSONTraceHandler", "TorchProfiler"}}
            listed == {callbacks[i].dir : i \in scanned} \cap
                          {d \in DOMAIN fs : fs[d].readable}
        IN  /\ Len(trace_files) = Cardinality(scanned)
            /\ \A i \in DOMAIN trace_files :
                  \A f \in trace_files[i] :
                      \E j \in scanned :
                          /\ f.dir = callbacks[j].dir
                          /\ Cardinality({k \in scanned : k <= j}) = i
            /\ FilesPassed = {f \in UNION {fs[d].files : d \in listed} : f.ext = "json"}

C28_Witness ==
    /\ merged # {}
    /\ \E f \in FilesPassed : f.dir = tensorboard_trace_handler_dir
    /\ \E f \in FilesPassed : f.dir = output_directory(_event_handlers[1])
    /\ \E d \in DOMAIN fs : \E f \in fs[d].files : f.ext = "txt" /\ f \notin FilesPassed

(***************************************************************************)
(* merge_traces in every rank together with the profiling calls of the     *)
(* rank that owns the modelled Profiler.  That rank is single threaded:    *)
(* it makes its profiling calls before it calls merge_traces.  A rank that *)
(* is inside merge_traces keeps executing (weak fairness of its steps      *)
(* after the call); whether and when a rank calls merge_traces is up to    *)
(* the host, so the call itself has no fairness.                           *)
(***************************************************************************)
Running == rank_pc[get_global_rank] = "running"

NextMergeFair ==
    \/ \E r \in Ranks : MergeCall(r) /\ NoProfilingStep
    \/ \E r \in Ranks : BarrierRelease(r) /\ NoProfilingStep
    \/ \E r \in Ranks : LocalRankCheck(r) /\ NoProfilingStep
    \/ \E r \in Ranks : MergeWrite(r) /\ NoProfilingStep
    \/ Running /\ GetActionCall(batch_in_epoch) /\ NoCallerStep
    \/ \E name \in RunNames :
          Running /\ ProfilerMarker(name, DefaultArgs) /\ NoCallerStep
    \/ \E id \in DOMAIN markers : Running /\ Start(id, 0) /\ NoCallerStep
    \/ \E id \in DOMAIN markers : Running /\ Finish(id, 0) /\ NoCallerStep
    \/ \E id \in DOMAIN markers : Running /\ Instant(id, 0) /\ NoCallerStep
    \/ \E id \in DOMAIN markers, values \in CounterValues :
          Running /\ Counter(id, values, 0) /\ NoCallerStep

RankStep(r) ==
    (BarrierRelease(r) \/ LocalRankCheck(r) \/ MergeWrite(r)) /\ NoProfilingStep

SpecMergeFair ==
    InitRegistry /\ [][NextMergeFair]_vars /\ \A r \in Ranks : WF_vars(RankStep(r))

\* every profiling call can complete in the current state, whatever the
\* other ranks are doing
ProfilingCallsComplete ==
    /\ ENABLED (GetActionCall(batch_in_epoch) /\ NoCallerStep)
    /\ \A name \in DOMAIN _names_to_markers :
          ENABLED (ProfilerMarker(name, DefaultArgs) /\ NoCallerStep)
    /\ Len(markers) < MaxMarkers =>
          \A name \in Names : ENABLED (ProfilerMarker(name, DefaultArgs) /\ NoCallerStep)
    /\ \A id \in DOMAIN markers :
          /\ ENABLED (Start(id, 0) /\ NoCallerStep)
          /\ ENABLED (Finish(id, 0) /\ NoCallerStep)
          /\ ENABLED (Instant(id, 0) /\ NoCallerStep)
          /\ \A values \in CounterValues : ENABLED (Counter(id, values, 0) /\ NoCallerStep)

\* C21: if every rank eventually calls merge_traces(), every rank eventually
\* returns from it; if some rank never calls it, no rank ever gets past the
\* barrier, so none that called it returns; and get_action, marker, start,
\* finish, instant and counter (with the record operations they make) can
\* always complete, also while other ranks wait at the barrier.
C21_OnlyMergeTracesBlocks ==
    /\ (\A r \in Ranks : <>(rank_pc[r] # "running")) =>
           <>(\A r \in Ranks : rank_pc[r] = "returned")
    /\ (\E q \in Ranks : [](rank_pc[q] = "running")) =>
           [](\A r \in Ranks : rank_pc[r] \in {"running", "barrier"})
    /\ []ProfilingCallsComplete

C21_Witness ==
    /\ \A r \in Ranks : rank_pc[r] = "returned"
    /\ merged = {r \in Ranks : get_local_rank(r) = 0}
    /\ ret.op = "start"
    /\ ret.error = None

====
